---- MODULE Spec2Model ----
(***************************************************************************)
(* Model of blaster.py: the batch driver main() and the candidate          *)
(* normalizer prepare().  A path is a sequence of tokens, the tokens being *)
(* "/", "." and the maximal runs of other characters between them, so that *)
(* str.endswith('.fa'), str.split('.')[0] and os.path.join are computed as *)
(* Python computes them.  The file system is a set of directories and a    *)
(* map from file paths to contents.                                        *)
(***************************************************************************)
EXTENDS Integers, Sequences, FiniteSets, TLC

\* ------------------------------------------------------------- bounds
\* At most MaxFiles files in the candidates folder the user means.
MaxFiles == 2
\* At most MaxLoci hits in one result document.
MaxLoci == 2

\* ---------------------------------------------------------- constants
None == "None"
blast_types == {"blastn", "blastp", "blastx", "tblastn", "tblastx"}
DefaultCandidatesFolder == <<"candidates">>
final_results_folder == <<"final_results">>
OutFmtXml == 5
ExitUsage == 2
ExitOk == 0
\* Exit status of the interpreter when an exception leaves main() uncaught.
ExitUncaught == 1
NoExit == -1

\* ------------------------------------------------------ path helpers
\* os.path.join(a, b) for a relative b and a non-empty a.
Join(a, b) == a \o <<"/">> \o b

\* The file system's view of a path: a leading "./" names the same place.
Norm(p) == IF Len(p) >= 2 /\ p[1] = "." /\ p[2] = "/"
           THEN SubSeq(p, 3, Len(p)) ELSE p

LastSlash(p) ==
    LET S == {i \in 1..Len(p) : p[i] = "/"}
    IN  IF S = {} THEN 0 ELSE CHOOSE i \in S : \A j \in S : j <= i

Parent(p) == SubSeq(p, 1, LastSlash(p) - 1)
Basename(p) == SubSeq(p, LastSlash(p) + 1, Len(p))

\* name.endswith('.' + ext)
EndsWith(name, ext) ==
    /\ Len(name) >= 2
    /\ name[Len(name) - 1] = "."
    /\ name[Len(name)] = ext

\* s.split('.')[0]: everything before the first dot of the whole string.
SplitDot0(s) ==
    LET D == {i \in 1..Len(s) : s[i] = "."}
    IN  IF D = {} THEN s
        ELSE SubSeq(s, 1, (CHOOSE i \in D : \A j \in D : i <= j) - 1)

\* os.path.splitext(s)[0] of a base name.
StripExt(s) ==
    LET D == {i \in 2..Len(s) : s[i] = "."}
    IN  IF D = {} THEN s
        ELSE SubSeq(s, 1, (CHOOSE i \in D : \A j \in D : j <= i) - 1)

\* ----------------------------------------------------- file contents
\* One shape for every file: kind, well-formedness, hits of a result
\* document, characters of a text file.
Content(k, o, l, t) == [kind |-> k, ok |-> o, loci |-> l, text |-> t]
GenBank(o) == Content("genbank", o, <<>>, <<>>)
OldFasta == Content("fasta", TRUE, <<>>, <<">", "o", "\n">>)
Note == Content("other", TRUE, <<>>, <<>>)
Xml(o, l) == Content("xml", o, l, <<>>)
Text(t) == Content("text", TRUE, <<>>, t)

\* record.format('fasta') of the record SeqIO.read returned.
FormatFasta(record) == Content("fasta", TRUE, <<>>, <<">", "g", "\n">>)

\* The i-th hit of a result document: identifier and aligned sequence.
Locus(i) == [id |-> <<"h">> \o [j \in 1..i |-> "i"],
             sequence |-> [j \in 1..i |-> IF j % 2 = 1 THEN "A" ELSE "C"]]
HitList(n) == [i \in 1..n |-> Locus(i)]
LociLists == {HitList(n) : n \in 0..MaxLoci}

\* ------------------------------------------------------- file system
isdir(ds, p) == Norm(p) = <<>> \/ Norm(p) \in ds
Openable(fs, p) == Norm(p) \in DOMAIN fs
WriteFile(fs, p, c) ==
    [q \in DOMAIN fs \cup {Norm(p)} |-> IF q = Norm(p) THEN c ELSE fs[q]]
\* The names os.listdir(folder) returns (files and sub-directories).
Entries(ds, fs, folder) ==
    {Basename(q) : q \in {r \in (DOMAIN fs) \cup ds : Parent(r) = Norm(folder)}}

\* All orders in which a listing can return the set S of names.
Orders(S) ==
    {s \in [1..Cardinality(S) -> S] : \A i, j \in 1..Cardinality(S) :
                                          i # j => s[i] # s[j]}

\* ------------------------------------------------ Candidate Normalizer
\* gene_filepath.split('.')[0] + '.fasta'
FastaTarget(gene_filepath) == SplitDot0(gene_filepath) \o <<".", "fasta">>

\* SeqIO.read(gene_filepath, 'genbank') returns a record (else it raises).
ReadableGenBank(fs, p) ==
    Openable(fs, p) /\ fs[Norm(p)].kind = "genbank" /\ fs[Norm(p)].ok

\* prepare(candidates, candidates_folder) run on the file system (ds, fs):
\* the files it leaves, and whether an exception left it.
RECURSIVE prepare(_, _, _, _)
prepare(cands, folder, ds, fs) ==
    IF cands = <<>> THEN [fs |-> fs, raised |-> FALSE]
    ELSE LET gene == Head(cands)
             gene_filepath == Join(folder, gene)
             target == FastaTarget(gene_filepath)
         IN  IF EndsWith(gene, "gb")
             THEN IF ~ReadableGenBank(fs, gene_filepath)
                  THEN [fs |-> fs, raised |-> TRUE]
                  ELSE IF Openable(fs, target)
                  THEN prepare(Tail(cands), folder, ds, fs)
                  ELSE IF ~isdir(ds, Parent(Norm(target)))
                  THEN [fs |-> fs, raised |-> TRUE]
                  ELSE prepare(Tail(cands), folder, ds,
                         WriteFile(fs, target,
                                   FormatFasta(fs[Norm(gene_filepath)])))
             ELSE prepare(Tail(cands), folder, ds, fs)

\* ---------------------------------------------------------- liblast
\* Sequence(filepath, database).gene_name: the file name without its
\* extension.  Two readings of "extension" are kept: after the last dot
\* ("splitext") or after the first dot ("split0").
GeneName(filepath, rule) ==
    IF rule = "splitext" THEN StripExt(Basename(filepath))
    ELSE SplitDot0(Basename(filepath))

Sequence(filepath, db, rule) ==
    [filepath |-> filepath, database |-> db,
     gene_name |-> GeneName(filepath, rule),
     blast_output |-> <<>>, blast_type |-> None, loci |-> <<>>]

NoCandidate == Sequence(<<>>, None, "splitext")

\* parse_blast() succeeds on a well-formed result document.
Parseable(fs, p) ==
    Openable(fs, p) /\ fs[Norm(p)].kind = "xml" /\ fs[Norm(p)].ok

\* ------------------------------------------------------------- main
\* os.path.join(candidates_folder, 'results'), evaluated before the
\* options are read, when candidates_folder is still the default.
candidates_results_folder == Join(DefaultCandidatesFolder, <<"results">>)

\* Variant: the test against blast_types is left out.
ValidBlastTypeAnyGiven(bt) == bt # None

\* blast_type is given and is one of blast_types.
ValidBlastType(bt) == bt # None /\ bt \in blast_types

\* os.path.join(candidates_results_folder, '%s.xml' % gene_name)
OutputFilepath(gene_name) ==
    Join(candidates_results_folder, gene_name \o <<".", "xml">>)

\* Variant: the existing result file is not looked at.
NeedsBlastAlways(fs, blast_output) == TRUE

\* The except branch of "Only BLAST if needed": the result file cannot be
\* opened.
NeedsBlast(fs, blast_output) == ~Openable(fs, blast_output)

\* The arguments dictionary handed to blast().
BlastArguments(cand, db) ==
    [query |-> cand.filepath, db |-> db, out |-> cand.blast_output,
     outfmt |-> OutFmtXml]

\* Variants: a handler in the loop logs the failure and goes on with the
\* next candidate.
OnBlastErrorSkip == "skip"
OnParseErrorSkip == "skip"

\* No handler surrounds blast() or parse_blast(): an exception leaves main().
OnBlastError == "raise"
OnParseError == "raise"

\* os.path.join(final_results_folder, '%s.fa' % name)
FinalPath(name) == Join(final_results_folder, name \o <<".", "fa">>)

\* Variant: the header line is not ended before the sequence is written.
RECURSIVE FinalFileContentJoined(_)
FinalFileContentJoined(loci) ==
    IF loci = <<>> THEN <<>>
    ELSE <<">">> \o Head(loci).id
         \o Head(loci).sequence \o <<"\n", "\n">>
         \o FinalFileContentJoined(Tail(loci))

\* What the inner loop writes for gene.loci: '>%s\n' % id, '%s\n\n' % sequence.
RECURSIVE FinalFileContent(_)
FinalFileContent(loci) ==
    IF loci = <<>> THEN <<>>
    ELSE <<">">> \o Head(loci).id \o <<"\n">>
         \o Head(loci).sequence \o <<"\n", "\n">>
         \o FinalFileContent(Tail(loci))

VARIABLES
    argv,               \* the command line, as getopt reads it
    nameRule,           \* which reading of gene_name liblast implements
    dirs, files,        \* the file system
    files0,             \* the files at start-up
    pc, exitCode,       \* position in main() and the process's exit status
    candidates_folder, database, blast_type,
    candidates, idx,    \* the listing and the position of the loop in it
    candidate, genes,   \* the Sequence in hand, the main dictionary
    created,            \* folders made by os.mkdir
    listed,             \* os.listdir has returned a listing
    calls,              \* invocations of the external tool, in order
    seen,               \* candidates the loop has taken up, in order
    outputs,            \* files of final_results opened for writing
    raised              \* the call whose exception left main(), if any

vars == <<argv, nameRule, dirs, files, files0, pc, exitCode,
          candidates_folder, database, blast_type, candidates, idx,
          candidate, genes, created, listed, calls, seen, outputs, raised>>

\* ------------------------------------------------------ initial states
\* -c values tried: a plain folder and the same folder written with "./".
CandidateArgs == {<<"alt">>, <<".", "/", "alt">>}

\* The parsed command line; c = <<>>, d = None, b = None: option not given.
\* A command line getopt rejects carries no options.
ArgvSet ==
    {a \in [malformed : BOOLEAN, help : BOOLEAN,
            c : {<<>>} \cup CandidateArgs, d : {None, "db"},
            b : {None, "blastn", "blastq"}] :
        a.malformed => (~a.help /\ a.c = <<>> /\ a.d = None /\ a.b = None)}

\* The folder the user means: the one given with -c, else the default.
UserFolder(a) == IF a.c # <<>> THEN a.c ELSE DefaultCandidatesFolder

\* Files a candidates folder may hold.
FileUniverse ==
    {[name |-> <<"a", ".", "fa">>, content |-> OldFasta],
     [name |-> <<"a", ".", "x", ".", "fa">>, content |-> OldFasta],
     [name |-> <<"a", ".", "gb">>, content |-> GenBank(TRUE)],
     [name |-> <<"a", ".", "gb">>, content |-> GenBank(FALSE)],
     [name |-> <<"a", ".", "fasta">>, content |-> OldFasta],
     [name |-> <<"n", ".", "txt">>, content |-> Note]}

InputSets ==
    {S \in SUBSET FileUniverse :
        /\ Cardinality(S) <= MaxFiles
        /\ \A x, y \in S : x.name = y.name => x = y}

\* Result documents a previous run may have left, per gene name.
ResultStems == {<<"a">>, <<"a", ".", "x">>}
CacheStates == {"absent", "corrupt", "document"}
CachedContent(st) ==
    IF st = "corrupt" THEN Xml(FALSE, <<>>) ELSE Xml(TRUE, HitList(MaxLoci))

\* An output file a previous run wrote.
StaleOutput == Text(<<">", "o", "l", "d", "\n", "T", "\n", "\n">>)

\* The files of a start-up state: the inputs in folder, the cached results
\* and, with each cached document, the output a previous run made of it.
InitialFiles(folder, inputs, cache) ==
    LET inPaths == {Join(folder, x.name) : x \in inputs}
        cStems == {g \in DOMAIN cache : cache[g] # "absent"}
        cPaths == {OutputFilepath(g) : g \in cStems}
        fStems == {g \in DOMAIN cache : cache[g] = "document"}
        fPaths == {FinalPath(g) : g \in fStems}
    IN  [q \in inPaths \cup cPaths \cup fPaths |->
            IF q \in inPaths
            THEN (CHOOSE x \in inputs : Join(folder, x.name) = q).content
            ELSE IF q \in cPaths
            THEN CachedContent(cache[CHOOSE g \in cStems :
                                        OutputFilepath(g) = q])
            ELSE StaleOutput]

Init ==
    /\ argv \in ArgvSet
    /\ nameRule \in {"splitext", "split0"}
    /\ \E cand \in {"absent", "fresh", "prior"}, alt \in BOOLEAN :
         /\ dirs = (IF cand = "absent" THEN {}
                    ELSE IF cand = "fresh" THEN {DefaultCandidatesFolder}
                    ELSE {DefaultCandidatesFolder, candidates_results_folder,
                          final_results_folder})
                   \cup (IF alt THEN {<<"alt">>} ELSE {})
         /\ \E inputs \in InputSets :
            \E cache \in [ResultStems -> CacheStates] :
               /\ (Norm(UserFolder(argv)) \notin dirs) => inputs = {}
               /\ cand # "prior" => \A g \in ResultStems : cache[g] = "absent"
               /\ files = InitialFiles(Norm(UserFolder(argv)), inputs, cache)
    /\ files0 = files
    /\ pc = "getopt"
    /\ exitCode = NoExit
    /\ candidates_folder = DefaultCandidatesFolder
    /\ database = None
    /\ blast_type = None
    /\ candidates = <<>>
    /\ idx = 0
    /\ candidate = NoCandidate
    /\ genes = <<>>
    /\ created = {}
    /\ listed = FALSE
    /\ calls = <<>>
    /\ seen = <<>>
    /\ outputs = {}
    /\ raised = None

\* ------------------------------------------------------------ actions
Exit(code) == pc' = "exit" /\ exitCode' = code /\ raised' = raised

Raise(what) == pc' = "crash" /\ exitCode' = ExitUncaught /\ raised' = what

\* getopt.getopt and the argument handler.
ParseArgs ==
    /\ pc = "getopt"
    /\ IF argv.malformed
       THEN Exit(ExitUsage) /\ UNCHANGED <<candidates_folder, database, blast_type>>
       ELSE IF argv.help
       THEN Exit(ExitOk) /\ UNCHANGED <<candidates_folder, database, blast_type>>
       ELSE /\ candidates_folder' =
                  (IF argv.c # <<>> THEN argv.c ELSE candidates_folder)
            /\ database' = (IF argv.d # None THEN argv.d ELSE database)
            /\ blast_type' = (IF argv.b # None THEN argv.b ELSE blast_type)
            /\ pc' = "check_blast"
            /\ UNCHANGED <<exitCode, raised>>
    /\ UNCHANGED <<argv, nameRule, dirs, files, files0, candidates, idx,
                   candidate, genes, created, listed, calls, seen, outputs>>

\* Check if BLAST command was specified.
CheckBlastType ==
    /\ pc = "check_blast"
    /\ IF ValidBlastType(blast_type)
       THEN pc' = "mkdirs" /\ UNCHANGED <<exitCode, raised>>
       ELSE Exit(ExitUsage)
    /\ UNCHANGED <<argv, nameRule, dirs, files, files0, candidates_folder,
                   database, blast_type, candidates, idx, candidate, genes,
                   created, listed, calls, seen, outputs>>

\* The folders the two isdir tests find missing.
MissingFolders(ds) ==
    {f \in {candidates_results_folder, final_results_folder} : ~isdir(ds, f)}

\* Check if results exists, check if final results exists.  os.mkdir raises
\* OSError when the parent folder does not exist.
MakeFolders ==
    /\ pc = "mkdirs"
    /\ IF /\ candidates_results_folder \in MissingFolders(dirs)
          /\ ~isdir(dirs, Parent(candidates_results_folder))
       THEN Raise("mkdir") /\ UNCHANGED <<dirs, created>>
       ELSE /\ dirs' = dirs \cup {Norm(f) : f \in MissingFolders(dirs)}
            /\ created' = created \cup MissingFolders(dirs)
            /\ pc' = "listdir"
            /\ UNCHANGED <<exitCode, raised>>
    /\ UNCHANGED <<argv, nameRule, files, files0, candidates_folder, database,
                   blast_type, candidates, idx, candidate, genes, listed,
                   calls, seen, outputs>>

\* Get candidate genes.
ListCandidates ==
    /\ pc = "listdir"
    /\ IF ~isdir(dirs, candidates_folder)
       THEN Exit(ExitUsage) /\ UNCHANGED <<candidates, listed>>
       ELSE /\ \E order \in Orders(Entries(dirs, files, candidates_folder)) :
                  candidates' = order
            /\ listed' = TRUE
            /\ pc' = "prepare"
            /\ UNCHANGED <<exitCode, raised>>
    /\ UNCHANGED <<argv, nameRule, dirs, files, files0, candidates_folder,
                   database, blast_type, idx, candidate, genes, created,
                   calls, seen, outputs>>

\* Process candidate genes.
Prepare ==
    /\ pc = "prepare"
    /\ LET r == prepare(candidates, candidates_folder, dirs, files)
       IN  /\ files' = r.fs
           /\ IF r.raised THEN Raise("prepare")
              ELSE pc' = "relist" /\ UNCHANGED <<exitCode, raised>>
    /\ UNCHANGED <<argv, nameRule, dirs, files0, candidates_folder, database,
                   blast_type, candidates, idx, candidate, genes, created,
                   listed, calls, seen, outputs>>

\* Get proper genes, now.  Only read FASTA files.
Relist ==
    /\ pc = "relist"
    /\ \E order \in Orders({n \in Entries(dirs, files, candidates_folder) :
                              EndsWith(n, "fa")}) :
          candidates' = order
    /\ idx' = 1
    /\ pc' = "loop"
    /\ UNCHANGED <<argv, nameRule, dirs, files, files0, exitCode,
                   candidates_folder, database, blast_type, candidate, genes,
                   created, listed, calls, seen, outputs, raised>>

\* Top of the loop body: instantiate Sequence, define blast_output, try to
\* open the result file.
BeginCandidate ==
    /\ pc = "loop"
    /\ idx <= Len(candidates)
    /\ LET gene_filepath == Join(candidates_folder, candidates[idx])
           fresh == Sequence(gene_filepath, database, nameRule)
           cand == [fresh EXCEPT
                      !.blast_output = OutputFilepath(fresh.gene_name)]
       IN  /\ candidate' = cand
           /\ seen' = Append(seen,
                        [filepath |-> cand.filepath,
                         gene_name |-> cand.gene_name,
                         blast_output |-> cand.blast_output,
                         openable |-> Openable(files, cand.blast_output),
                         parsed |-> FALSE,
                         failed |-> None])
           /\ pc' = IF NeedsBlast(files, cand.blast_output)
                    THEN "blast" ELSE "parse"
    /\ UNCHANGED <<argv, nameRule, dirs, files, files0, exitCode,
                   candidates_folder, database, blast_type, candidates, idx,
                   genes, created, listed, calls, outputs, raised>>

\* Execute BLAST command: blast(blast_type, arguments).  The tool either
\* leaves a well-formed document at out, or blast() fails.
Blast ==
    /\ pc = "blast"
    /\ calls' = Append(calls, [cmd |-> blast_type, iter |-> idx,
                               args |-> BlastArguments(candidate, database)])
    /\ \/ /\ \E loci \in LociLists :
                files' = WriteFile(files, candidate.blast_output,
                                   Xml(TRUE, loci))
          /\ pc' = "parse"
          /\ UNCHANGED <<exitCode, raised, idx, seen>>
       \/ /\ seen' = [seen EXCEPT ![Len(seen)].failed = "blast"]
          /\ IF OnBlastError = "raise"
             THEN Raise("blast") /\ idx' = idx
             ELSE /\ pc' = "loop"
                  /\ idx' = idx + 1
                  /\ UNCHANGED <<exitCode, raised>>
          /\ files' = files
    /\ UNCHANGED <<argv, nameRule, dirs, files0, candidates_folder, database,
                   blast_type, candidates, candidate, genes, created, listed,
                   outputs>>

\* Parsing XML: candidate.parse_blast(), then add to main dictionary.
ParseBlast ==
    /\ pc = "parse"
    /\ IF Parseable(files, candidate.blast_output)
       THEN LET done == [candidate EXCEPT
                           !.blast_type = blast_type,
                           !.loci = files[Norm(candidate.blast_output)].loci]
            IN  /\ candidate' = done
                /\ genes' = [n \in DOMAIN genes \cup {done.gene_name} |->
                               IF n = done.gene_name THEN done ELSE genes[n]]
                /\ seen' = [seen EXCEPT ![Len(seen)].parsed = TRUE]
                /\ idx' = idx + 1
                /\ pc' = "loop"
                /\ UNCHANGED <<exitCode, raised>>
       ELSE /\ IF OnParseError = "raise"
               THEN Raise("parse_blast") /\ idx' = idx
               ELSE /\ pc' = "loop"
                    /\ idx' = idx + 1
                    /\ UNCHANGED <<exitCode, raised>>
            /\ seen' = [seen EXCEPT ![Len(seen)].failed = "parse_blast"]
            /\ UNCHANGED <<candidate, genes>>
    /\ UNCHANGED <<argv, nameRule, dirs, files, files0, candidates_folder,
                   database, blast_type, candidates, created, listed, calls,
                   outputs>>

\* Print loci equivalent to candidate genes: one file per entry of genes.
WriteFinal ==
    /\ pc = "loop"
    /\ idx > Len(candidates)
    /\ LET out == {FinalPath(n) : n \in DOMAIN genes}
       IN  files' = [q \in DOMAIN files \cup out |->
                       IF q \in out
                       THEN Text(FinalFileContent(
                              genes[CHOOSE n \in DOMAIN genes :
                                        FinalPath(n) = q].loci))
                       ELSE files[q]]
    /\ outputs' = {FinalPath(n) : n \in DOMAIN genes}
    /\ pc' = "done"
    /\ exitCode' = ExitOk
    /\ UNCHANGED <<argv, nameRule, dirs, files0, candidates_folder, database,
                   blast_type, candidates, idx, candidate, genes, created,
                   listed, calls, seen, raised>>

Next ==
    \/ ParseArgs
    \/ CheckBlastType
    \/ MakeFolders
    \/ ListCandidates
    \/ Prepare
    \/ Relist
    \/ BeginCandidate
    \/ Blast
    \/ ParseBlast
    \/ WriteFinal

Spec == Init /\ [][Next]_vars

Terminated == pc \in {"exit", "crash", "done"}

\* ------------------------------------------------------------ readers
\* The lines of a text, each without its newline.
RECURSIVE Lines(_)
Lines(t) ==
    LET N == {i \in 1..Len(t) : t[i] = "\n"}
    IN  IF t = <<>> THEN <<>>
        ELSE IF N = {} THEN <<t>>
        ELSE LET k == CHOOSE i \in N : \A j \in N : i <= j
             IN  <<SubSeq(t, 1, k - 1)>> \o Lines(SubSeq(t, k + 1, Len(t)))

\* Reading plain-sequence lines: a line starting with ">" opens a record
\* and gives its id, the other lines up to the next header are its sequence.
RECURSIVE ReadRecords(_, _)
ReadRecords(lines, acc) ==
    IF lines = <<>> THEN acc
    ELSE LET l == Head(lines)
         IN  IF l # <<>> /\ l[1] = ">"
             THEN ReadRecords(Tail(lines),
                              Append(acc, [id |-> Tail(l), sequence |-> <<>>]))
             ELSE IF acc = <<>> THEN ReadRecords(Tail(lines), acc)
             ELSE ReadRecords(Tail(lines),
                    [acc EXCEPT ![Len(acc)].sequence = @ \o l])

ReadFasta(text) == ReadRecords(Lines(text), <<>>)

\* Indices of the tool's invocations made while candidate i was in hand.
CallsFor(i) == {k \in 1..Len(calls) : calls[k].iter = i}

\* The last candidate taken up that derived gene name n.
LastSeen(n) ==
    CHOOSE i \in 1..Len(seen) :
        /\ seen[i].gene_name = n
        /\ \A j \in 1..Len(seen) : seen[j].gene_name = n => j <= i

\* ------------------------------------------------------------- claims

\* C1: for every candidate the loop takes up, an openable result file means
\* no invocation of the tool and parsing of that file; otherwise exactly one
\* invocation, with query = the candidate's file, db = the database, out =
\* the result path and outfmt = 5, made before parsing.  No candidate is
\* searched twice.
C1_SearchOnlyIfNeeded ==
    /\ \A i \in 1..Len(seen) :
         /\ seen[i].openable => CallsFor(i) = {}
         /\ Cardinality(CallsFor(i)) <= 1
         /\ (~seen[i].openable /\ (i < Len(seen) \/ pc # "blast")) =>
               /\ Cardinality(CallsFor(i)) = 1
               /\ \A k \in CallsFor(i) :
                     calls[k].args = [query |-> seen[i].filepath,
                                      db |-> database,
                                      out |-> seen[i].blast_output,
                                      outfmt |-> 5]
         /\ seen[i].parsed =>
               /\ seen[i].openable \/ CallsFor(i) # {}
               /\ Openable(files, seen[i].blast_output)
    /\ \A k \in 1..Len(calls) : calls[k].iter \in 1..Len(seen)
    /\ \A k, l \in 1..Len(calls) :
          calls[k].args.query = calls[l].args.query => k = l
    /\ (pc = "loop" /\ seen # <<>> /\ seen[Len(seen)].parsed) =>
          candidate.loci = files[Norm(candidate.blast_output)].loci

\* A run that found one result file in place and had to search for another.
C1_Witness ==
    \E i, j \in 1..Len(seen) :
        /\ seen[i].openable /\ seen[i].parsed /\ CallsFor(i) = {}
        /\ ~seen[j].openable /\ seen[j].parsed /\ CallsFor(j) # {}

\* The search mode is missing or is none of the five.
BadMode == argv.b \notin blast_types

C3_MissingFolderExits2 ==
    (/\ Terminated /\ ~argv.malformed /\ ~argv.help
     /\ argv.b \in blast_types
     /\ ~isdir(dirs, UserFolder(argv))) =>
        exitCode = 2 /\ raised # "mkdir"

\* C4: every result path is <folder in use>/results/<gene_name>.xml, and
\* that results folder is the one created.
C4_ResultsUnderFolderInUse ==
    /\ \A i \in 1..Len(seen) :
          Norm(seen[i].blast_output) =
             Norm(Join(Join(candidates_folder, <<"results">>),
                       seen[i].gene_name \o <<".", "xml">>))
    /\ \A f \in created :
          f = final_results_folder
          \/ Norm(f) = Norm(Join(candidates_folder, <<"results">>))

\* The well-formed .gb files the candidates folder held at start-up.
GbInputs ==
    {n \in Entries(dirs, files0, candidates_folder) :
        EndsWith(n, "gb")
        /\ ReadableGenBank(files0, Join(candidates_folder, n))}

\* C5: once the candidates are re-enumerated, the plain-sequence file that
\* prepare() made (or found) for each .gb input is among the candidates.
C5_ConvertedIsCandidate ==
    pc \in {"loop", "blast", "parse", "done"} =>
        \A n \in GbInputs :
            \E k \in 1..Len(candidates) :
                Norm(Join(candidates_folder, candidates[k])) =
                   Norm(FastaTarget(Join(candidates_folder, n)))

\* C6: without -d main() exits with code 2 and the tool is never invoked
\* with db unset.  (Stated for command lines that getopt accepts and that
\* do not ask for help, and for runs no exception ends.)
C6_DatabaseRequired ==
    /\ (/\ Terminated /\ raised = None
        /\ ~argv.malformed /\ ~argv.help /\ argv.d = None) =>
           exitCode = 2
    /\ \A k \in 1..Len(calls) : calls[k].args.db # None

\* The candidates the loop was to process that are not the failed ones.
OtherCandidates ==
    {k \in 1..Len(candidates) :
        ~\E i \in 1..Len(seen) :
            seen[i].failed # None
            /\ seen[i].filepath = Join(candidates_folder, candidates[k])}

C8_PrepareNonDestructive ==
    pc = "relist" =>
        /\ \A q \in DOMAIN files \ DOMAIN files0 :
              \E n \in GbInputs :
                 q = Norm(Join(candidates_folder,
                               StripExt(n) \o <<".", "fasta">>))
        /\ \A q \in DOMAIN files0 : q \in DOMAIN files /\ files[q] = files0[q]
        /\ prepare(candidates, candidates_folder, dirs, files) =
              [fs |-> files, raised |-> FALSE]

\* C9: on normal completion there is one file <gene_name>.fa in
\* final_results for every entry of genes and no other file was written;
\* read back, the file gives the (id, sequence) pairs of the entry's loci in
\* order, three lines a record with the third blank, and is empty for no
\* loci; an entry is the record of the last candidate that derived its name,
\* with the loci of that candidate's result document.
C9_OutputFiles ==
    pc = "done" =>
        /\ outputs = {FinalPath(n) : n \in DOMAIN genes}
        /\ DOMAIN genes = {seen[i].gene_name : i \in 1..Len(seen)}
        /\ \A n \in DOMAIN genes :
              LET f == files[Norm(FinalPath(n))]
                  ls == Lines(f.text)
                  last == seen[LastSeen(n)]
              IN  /\ Openable(files, FinalPath(n))
                  /\ Basename(FinalPath(n)) = n \o <<".", "fa">>
                  /\ ReadFasta(f.text) =
                        [i \in 1..Len(genes[n].loci) |->
                            [id |-> genes[n].loci[i].id,
                             sequence |-> genes[n].loci[i].sequence]]
                  /\ Len(ls) = 3 * Len(genes[n].loci)
                  /\ \A i \in 1..Len(genes[n].loci) : ls[3 * i] = <<>>
                  /\ genes[n].loci = <<>> => f.text = <<>>
                  /\ genes[n].filepath = last.filepath
                  /\ genes[n].loci = files[Norm(last.blast_output)].loci

\* A completed run in which two candidates derived one gene name and the
\* record kept has several loci, over a stale output file.
C9_Witness ==
    /\ pc = "done"
    /\ Len(seen) > Cardinality(DOMAIN genes)
    /\ \E n \in DOMAIN genes :
          /\ Len(genes[n].loci) >= 2
          /\ FinalPath(n) \in DOMAIN files0

\* C10: once blast() fails for a candidate the batch is over: that
\* candidate is the last one taken up, the tool was invoked once for it and
\* not again for anyone, it is not parsed, and no file of final_results is
\* written; output files are written only when every candidate has been
\* searched and parsed.
C10_BlastFailureFatal ==
    /\ \A i \in 1..Len(seen) :
          seen[i].failed = "blast" =>
              /\ pc = "crash"
              /\ i = Len(seen)
              /\ Cardinality(CallsFor(i)) = 1
              /\ \A k \in 1..Len(calls) : calls[k].iter <= i
              /\ ~seen[i].parsed
              /\ outputs = {}
    /\ outputs # {} =>
          /\ Len(seen) = Len(candidates)
          /\ \A i \in 1..Len(seen) : seen[i].parsed

\* blast() has failed while a candidate was still waiting.
C10_Witness ==
    /\ seen # <<>>
    /\ seen[Len(seen)].failed = "blast"
    /\ Len(seen) < Len(candidates)
    /\ pc = "crash"
====
